---- MODULE Spec2Model ----
(***************************************************************************)
(* The agent loop of agent.py: main's attempt loop, the oracle client      *)
(* llm_propose_patches with its JSON decoding, apply_patches and the       *)
(* pytest verifier.                                                        *)
(*                                                                         *)
(* Text is a tuple of strings.  A response body is a tuple of lexemes:     *)
(* each lexeme is one character of the body, or one complete JSON string   *)
(* literal (quotes included, no brace inside), or the word null.  A path   *)
(* text is the tuple of its "/"-separated components, a leading "/"        *)
(* component marking an absolute path.                                     *)
(*                                                                         *)
(* Spec is main's attempt loop; SpecOutside is the same loop against      *)
(* plans that may name a path outside the root; SpecOracle is one call of  *)
(* llm_propose_patches, SpecApply two calls of apply_patches, SpecContext  *)
(* two calls of repo_context, each on inputs drawn in its initial state.   *)
(*                                                                         *)
(* The run starts with the service credential configured (Groq() can be    *)
(* constructed).  out holds what main prints; the diagnostics that         *)
(* llm_propose_patches prints on a failed try are not recorded.  fs holds  *)
(* what the agent writes; files the test runner leaves behind are not      *)
(* tracked.                                                                *)
(***************************************************************************)
EXTENDS Integers, Sequences, FiniteSets, TLC

(***************************************************************************)
(* Lexemes of a response body.                                             *)
(***************************************************************************)
Ch(c) == [k |-> "ch", v |-> <<c>>]
Str(text) == [k |-> "str", v |-> text]
Word(w) == [k |-> "word", v |-> <<w>>]

LBRACE == Ch("{")
RBRACE == Ch("}")
LBRACK == Ch("[")
RBRACK == Ch("]")
COLON == Ch(":")
COMMA == Ch(",")
SPACE == Ch(" ")
DIGIT == Ch("1")
PROSE == Ch("x")
NULLWORD == Word("null")

(***************************************************************************)
(* Decoded JSON values (what json.loads returns).                          *)
(***************************************************************************)
JNull == [t |-> "null"]
JNum(n) == [t |-> "num", n |-> n]
JStr(s) == [t |-> "str", s |-> s]
JArr(a) == [t |-> "arr", a |-> a]
JObj(o) == [t |-> "obj", o |-> o]

Fail == [ok |-> FALSE]
Ok(v, e) == [ok |-> TRUE, val |-> v, end |-> e]

(* json's WHITESPACE.match: the first index >= i that holds no whitespace. *)
RECURSIVE SkipWs(_, _)
SkipWs(s, i) ==
    IF i <= Len(s) /\ s[i] = SPACE THEN SkipWs(s, i + 1) ELSE i

(* NUMBER_RE: the index after the run of digits that starts at i.          *)
RECURSIVE NumEnd(_, _)
NumEnd(s, i) ==
    IF i <= Len(s) /\ s[i] = DIGIT THEN NumEnd(s, i + 1) ELSE i

(* int() of a run of n digits "1".                                         *)
RECURSIVE NumVal(_)
NumVal(n) ==
    IF n = 0 THEN 0 ELSE 10 * NumVal(n - 1) + 1

RECURSIVE scan_once(_, _)
RECURSIVE ObjectMembers(_, _, _)
RECURSIVE ArrayElements(_, _, _)

(* JSONObject: i is the index after the opening brace.                     *)
JSONObject(s, i) ==
    LET j == SkipWs(s, i) IN
    IF j <= Len(s) /\ s[j] = RBRACE
    THEN Ok(JObj(<<>>), j + 1)
    ELSE ObjectMembers(s, j, <<>>)

(* The member loop of JSONObject: j is where a key must start; a later     *)
(* pair with the same key replaces the earlier one (dict(pairs)).          *)
ObjectMembers(s, j, acc) ==
    IF j > Len(s) \/ s[j].k # "str" THEN Fail
    ELSE
      LET c == SkipWs(s, j + 1) IN
      IF c > Len(s) \/ s[c] # COLON THEN Fail
      ELSE
        LET r == scan_once(s, SkipWs(s, c + 1)) IN
        IF ~r.ok THEN Fail
        ELSE
          LET acc2 == (s[j].v :> r.val) @@ acc
              e == SkipWs(s, r.end)
          IN
          IF e > Len(s) THEN Fail
          ELSE IF s[e] = RBRACE THEN Ok(JObj(acc2), e + 1)
          ELSE IF s[e] = COMMA THEN ObjectMembers(s, SkipWs(s, e + 1), acc2)
          ELSE Fail

(* JSONArray: i is the index after the opening bracket.                    *)
JSONArray(s, i) ==
    LET j == SkipWs(s, i) IN
    IF j <= Len(s) /\ s[j] = RBRACK
    THEN Ok(JArr(<<>>), j + 1)
    ELSE ArrayElements(s, j, <<>>)

ArrayElements(s, j, acc) ==
    LET r == scan_once(s, j) IN
    IF ~r.ok THEN Fail
    ELSE
      LET acc2 == Append(acc, r.val)
          e == SkipWs(s, r.end)
      IN
      IF e > Len(s) THEN Fail
      ELSE IF s[e] = RBRACK THEN Ok(JArr(acc2), e + 1)
      ELSE IF s[e] = COMMA THEN ArrayElements(s, SkipWs(s, e + 1), acc2)
      ELSE Fail

(* json.scanner: one value starting exactly at index i.                    *)
scan_once(s, i) ==
    IF i > Len(s) THEN Fail
    ELSE IF s[i].k = "str" THEN Ok(JStr(s[i].v), i + 1)
    ELSE IF s[i] = LBRACE THEN JSONObject(s, i + 1)
    ELSE IF s[i] = LBRACK THEN JSONArray(s, i + 1)
    ELSE IF s[i] = NULLWORD THEN Ok(JNull, i + 1)
    ELSE IF s[i] = DIGIT THEN Ok(JNum(NumVal(NumEnd(s, i) - i)), NumEnd(s, i))
    ELSE Fail

(* json.loads: one value, whitespace allowed around it, nothing else       *)
(* ("Extra data" otherwise).                                               *)
json_loads(s) ==
    LET r == scan_once(s, SkipWs(s, 1)) IN
    IF ~r.ok THEN Fail
    ELSE IF SkipWs(s, r.end) # Len(s) + 1 THEN Fail
    ELSE r

(* str.find / str.rfind of one character: Python's 0-based index, or -1.   *)
RECURSIVE FindFrom(_, _, _)
FindFrom(s, c, i) ==
    IF i > Len(s) THEN -1
    ELSE IF s[i] = c THEN i - 1
    ELSE FindFrom(s, c, i + 1)

find(s, c) == FindFrom(s, c, 1)

RECURSIVE RFindFrom(_, _, _)
RFindFrom(s, c, i) ==
    IF i < 1 THEN -1
    ELSE IF s[i] = c THEN i - 1
    ELSE RFindFrom(s, c, i - 1)

rfind(s, c) == RFindFrom(s, c, Len(s))

(* s[a:b] for 0 <= a <= b.                                                 *)
Slice(s, a, b) == SubSeq(s, a + 1, b)

(* str.strip().                                                            *)
RECURSIVE lstrip(_)
lstrip(s) ==
    IF s # <<>> /\ Head(s) = SPACE THEN lstrip(Tail(s)) ELSE s

RECURSIVE rstrip(_)
rstrip(s) ==
    IF s # <<>> /\ s[Len(s)] = SPACE THEN rstrip(SubSeq(s, 1, Len(s) - 1)) ELSE s

strip(s) == rstrip(lstrip(s))

(***************************************************************************)
(* Program constants.                                                      *)
(***************************************************************************)
MAX_ATTEMPTS == 3
LLM_TRIES == 3
NOTES_SHOWN == 500

Target == "icici"
Root == <<"/", "repo">>
ParserRel == <<"custom_parsers", "icici_parser.py">>
TestRel == <<"tests", "test_icici.py">>
DataDirRel == <<"data", "icici">>
PdfRel == <<"data", "icici", "icici sample.pdf">>
CsvRel == <<"data", "icici", "result.csv">>
ExcludedSegs == {".venv", "venv", "__pycache__", ".git"}

(***************************************************************************)
(* Paths.  pathlib joins without resolving "..": the file system resolves  *)
(* it when the path is opened.                                             *)
(***************************************************************************)
IsAbsolute(p) == p # <<>> /\ Head(p) = "/"

(* Path.__truediv__: an absolute right operand replaces the left one.      *)
JoinPath(base, rel) == IF IsAbsolute(rel) THEN rel ELSE base \o rel

RECURSIVE ResolveFrom(_, _)
ResolveFrom(done, rest) ==
    IF rest = <<>> THEN done
    ELSE IF Head(rest) = ".."
    THEN ResolveFrom(IF Len(done) > 1 THEN SubSeq(done, 1, Len(done) - 1) ELSE done,
                     Tail(rest))
    ELSE IF Head(rest) = "." THEN ResolveFrom(done, Tail(rest))
    ELSE ResolveFrom(Append(done, Head(rest)), Tail(rest))

(* The location an absolute path names once the file system resolved it.   *)
Resolve(p) == ResolveFrom(<<"/">>, Tail(p))

IsPrefix(a, b) == Len(a) <= Len(b) /\ SubSeq(b, 1, Len(a)) = a

(* The proper ancestors of a location, the file system root left out.      *)
Ancestors(loc) == { SubSeq(loc, 1, n) : n \in 2..(Len(loc) - 1) }

(* Line 17 left out.                                                       *)
mkdir_none(dirs, d) == dirs

(* Path.mkdir(parents=True, exist_ok=True) of directory d.                 *)
mkdir_parents(dirs, d) == dirs \cup Ancestors(d) \cup {d}

(***************************************************************************)
(* Python truthiness and dict.get on decoded values.                       *)
(***************************************************************************)
(* Line 57 as "if rel is None".                                            *)
Falsy_none(v) == v.t = "null"

Falsy(v) ==
    \/ v.t = "null"
    \/ v.t = "str" /\ v.s = <<>>
    \/ v.t = "num" /\ v.n = 0
    \/ v.t = "arr" /\ v.a = <<>>
    \/ v.t = "obj" /\ DOMAIN v.o = {}

(* d.get(key, default) of a dict d.                                        *)
dict_get(d, key, default) ==
    IF key \in DOMAIN d.o THEN d.o[key] ELSE default

(***************************************************************************)
(* The file tree: files maps the location of every regular file to its     *)
(* text, dirs is the set of directories.                                   *)
(***************************************************************************)
Exists(fs, loc) == loc \in DOMAIN fs.files \/ loc \in fs.dirs

ApplyResult(fs, e) == [files |-> fs.files, dirs |-> fs.dirs, err |-> e]

(* Line 61 opening the file in append mode.                                *)
write_text_append(files, dest, text) ==
    (dest :> ((IF dest \in DOMAIN files THEN files[dest] ELSE <<>>) \o text)) @@ files

(* Path.write_text: the file holds text and nothing else afterwards.       *)
write_text(files, dest, text) == (dest :> text) @@ files

(* The body of apply_patches' loop for one patch.                          *)
apply_one(fs, patch) ==
    IF patch.t # "obj" THEN ApplyResult(fs, "AttributeError")
    ELSE
      LET rel == dict_get(patch, <<"path">>, JNull)
          content == dict_get(patch, <<"content">>, JStr(<<>>))
      IN
      IF Falsy(rel) THEN ApplyResult(fs, "")
      ELSE IF rel.t # "str" THEN ApplyResult(fs, "TypeError")
      ELSE
        LET dest == Resolve(JoinPath(Root, rel.s))
            made == fs.dirs \cup Ancestors(dest)
        IN
        IF \E a \in Ancestors(dest) : a \in DOMAIN fs.files
        THEN ApplyResult(fs, "FileExistsError")
        ELSE IF content.t # "str"
        THEN [files |-> fs.files, dirs |-> made, err |-> "TypeError"]
        ELSE IF dest \in made \/ dest = <<"/">>
        THEN [files |-> fs.files, dirs |-> made, err |-> "IsADirectoryError"]
        ELSE [files |-> write_text(fs.files, dest, content.s), dirs |-> made, err |-> ""]

(* The loop of apply_patches leaving after its first patch.                *)
apply_seq_first(items, fs) ==
    IF items = <<>> THEN ApplyResult(fs, "") ELSE apply_one(fs, Head(items))

RECURSIVE apply_seq(_, _)
apply_seq(items, fs) ==
    IF items = <<>> THEN ApplyResult(fs, "")
    ELSE
      LET r == apply_one(fs, Head(items)) IN
      IF r.err # "" THEN r
      ELSE apply_seq(Tail(items), [files |-> r.files, dirs |-> r.dirs])

(* What "for patch in patches" iterates over: a list's items, a dict's     *)
(* keys, a string's characters; None and numbers are not iterable.  The    *)
(* loop body raises on the first key or character, so one stands for all.  *)
IterItems(v) ==
    IF v.t = "arr" THEN v.a
    ELSE IF v.t = "obj"
    THEN IF DOMAIN v.o = {} THEN <<>> ELSE <<JStr(CHOOSE k \in DOMAIN v.o : TRUE)>>
    ELSE IF v.s = <<>> THEN <<>> ELSE <<JStr(<<Head(v.s)>>)>>

apply_patches(patches, fs) ==
    IF patches.t \in {"null", "num"} THEN ApplyResult(fs, "TypeError")
    ELSE apply_seq(IterItems(patches), fs)

(***************************************************************************)
(* The context snapshot.                                                   *)
(***************************************************************************)
Parts(loc) == { loc[i] : i \in 1..Len(loc) }

(* Every order in which the members of S can be enumerated.                *)
RECURSIVE Orders(_)
Orders(S) ==
    IF S = {} THEN {<<>>}
    ELSE UNION { { <<x>> \o rest : rest \in Orders(S \ {x}) } : x \in S }

(* What root.rglob("*") may yield for the regular files below root: the    *)
(* order is the directory order of the file system, which nothing fixes.   *)
rglob_files(fs, root) ==
    Orders({ l \in DOMAIN fs.files : IsPrefix(root, l) /\ l # root })

(* The order of Python's str on the names of the model, by code point.     *)
NameOrder ==
    << ".git", "HEAD", "custom_parsers", "data", "icici", "icici sample.pdf",
       "icici_parser.py", "notes.txt", "result.csv", "test_icici.py", "tests" >>
NameRank(name) == CHOOSE i \in 1..Len(NameOrder) : NameOrder[i] = name

(* str.__lt__ on two relative paths: no name of the model that is a prefix *)
(* of another shares its directory, so the joined strings order as their   *)
(* components do.                                                          *)
RECURSIVE PathLess(_, _)
PathLess(a, b) ==
    IF a = <<>> THEN b # <<>>
    ELSE IF b = <<>> THEN FALSE
    ELSE IF Head(a) = Head(b) THEN PathLess(Tail(a), Tail(b))
    ELSE NameRank(Head(a)) < NameRank(Head(b))

RECURSIVE insert_sorted(_, _)
insert_sorted(x, seq) ==
    IF seq = <<>> THEN <<x>>
    ELSE IF PathLess(Head(seq), x) THEN <<Head(seq)>> \o insert_sorted(x, Tail(seq))
    ELSE <<x>> \o seq

(* Line 40 as "return out": the files in the order rglob yielded them.     *)
sorted_not(seq) == seq

(* sorted(out).                                                            *)
RECURSIVE sorted(_)
sorted(seq) ==
    IF seq = <<>> THEN <<>> ELSE insert_sorted(Head(seq), sorted(Tail(seq)))

(* The loop of file_tree_snapshot over what rglob yielded.                 *)
RECURSIVE snapshot_loop(_, _)
snapshot_loop(listing, root) ==
    IF listing = <<>> THEN <<>>
    ELSE
      LET p == Head(listing)
          rest == snapshot_loop(Tail(listing), root)
      IN
      IF Parts(p) \cap ExcludedSegs # {} THEN rest
      ELSE <<SubSeq(p, Len(root) + 1, Len(p))>> \o rest

file_tree_snapshot(listing, root) == sorted(snapshot_loop(listing, root))

(* A path that exists and cannot be read (a directory) maps to "".         *)
read_existing_files(fs, paths) ==
    [ p \in { q \in paths : Exists(fs, q) } |->
        IF p \in DOMAIN fs.files THEN fs.files[p] ELSE <<>> ]

(* What repo_context returns on tree fs, its mkdir of line 17 done, when   *)
(* rglob yields listing.                                                   *)
repo_context(fs, listing) ==
    [ root |-> Root,
      target |-> Target,
      data_pdf_exists |-> Exists(fs, Root \o PdfRel),
      data_csv_exists |-> Exists(fs, Root \o CsvRel),
      data_pdf |-> Root \o PdfRel,
      data_csv |-> Root \o CsvRel,
      present_files |-> file_tree_snapshot(listing, Root),
      existing_contents |-> read_existing_files(fs, {Root \o ParserRel, Root \o TestRel}) ]

(* The fields build_user_prompt interpolates; "last_report or 'N/A'".      *)
build_user_prompt(c, report) ==
    [ target |-> c.target,
      data_pdf_exists |-> c.data_pdf_exists,
      data_pdf |-> c.data_pdf,
      data_csv_exists |-> c.data_csv_exists,
      data_csv |-> c.data_csv,
      present_files |-> c.present_files,
      existing_keys |-> DOMAIN c.existing_contents,
      last_report |-> IF report = <<>> THEN <<"N/A">> ELSE report ]

(***************************************************************************)
(* The oracle client.  A response is a transport/API error, a completion   *)
(* whose content is None, or a completion with a body.                     *)
(***************************************************************************)
ApiError == [kind |-> "error"]
NoneContent == [kind |-> "none"]
Body(b) == [kind |-> "body", body |-> b]
NoResponse == [kind |-> "unset"]

Retry(why) == [returned |-> FALSE, why |-> why]
Return(v) == [returned |-> TRUE, val |-> v]

(* The fallback with content[start:end]: the last brace is cut off.        *)
substring_decode_short(content) ==
    LET start == find(content, LBRACE)
        end == rfind(content, RBRACE)
    IN
    IF start # -1 /\ end # -1 /\ end > start
    THEN json_loads(Slice(content, start, end))
    ELSE Fail

(* The fallback decode of the body from its first "{" to its last "}".     *)
substring_decode(content) ==
    LET start == find(content, LBRACE)
        end == rfind(content, RBRACE)
    IN
    IF start # -1 /\ end # -1 /\ end > start
    THEN json_loads(Slice(content, start, end + 1))
    ELSE Fail

(* One iteration of llm_propose_patches' loop on response resp.            *)
llm_try(resp) ==
    IF resp.kind = "error" THEN Retry("error")
    ELSE IF resp.kind = "none" THEN Retry("empty")
    ELSE IF resp.body = <<>> \/ strip(resp.body) = <<>> THEN Retry("empty")
    ELSE
      LET strict == json_loads(resp.body) IN
      IF strict.ok THEN Return(strict.val)
      ELSE
        LET sub == substring_decode(resp.body) IN
        IF sub.ok THEN Return(sub.val) ELSE Retry("malformed")

(***************************************************************************)
(* Inputs: what the remote service and the test runner may answer.         *)
(***************************************************************************)
MaxProse == 1

RECURSIVE JoinComma(_)
JoinComma(parts) ==
    IF parts = <<>> THEN <<>>
    ELSE IF Len(parts) = 1 THEN parts[1]
    ELSE parts[1] \o <<COMMA, SPACE>> \o JoinComma(Tail(parts))

ObjectOf(members) == <<LBRACE>> \o JoinComma(members) \o <<RBRACE>>
ArrayOf(items) == <<LBRACK>> \o JoinComma(items) \o <<RBRACK>>
Member(key, value) == <<Str(<<key>>), COLON, SPACE>> \o value

PatchJ(path, content) ==
    ObjectOf(<<Member("path", <<Str(path)>>), Member("content", <<Str(content)>>)>>)
PlanJ(patches, notes) ==
    ObjectOf(<<Member("patches", ArrayOf(patches)), Member("notes", <<Str(notes)>>)>>)

GoodPlan == PlanJ(<<PatchJ(ParserRel, <<"A">>), PatchJ(TestRel, <<"B">>)>>, <<"n">>)
OnePatchPlan == PlanJ(<<PatchJ(ParserRel, <<"B">>)>>, <<"n">>)
NoPathPlan ==
    PlanJ(<<ObjectOf(<<Member("content", <<Str(<<"A">>)>>)>>), PatchJ(TestRel, <<"A">>)>>,
          <<"n">>)
NullContentPlan ==
    PlanJ(<<PatchJ(TestRel, <<"A">>),
            ObjectOf(<<Member("path", <<Str(ParserRel)>>), Member("content", <<NULLWORD>>)>>)>>,
          <<"n">>)
EmptyObject == ObjectOf(<<>>)
NumberNotes == ObjectOf(<<Member("notes", <<DIGIT>>)>>)
Truncated == <<LBRACE, Str(<<"patches">>), COLON, SPACE, LBRACK>>

(* Bodies that decode to an object.                                        *)
ObjectBodies ==
    { GoodPlan, OnePatchPlan, NoPathPlan, NullContentPlan, EmptyObject, NumberNotes }

(* Bodies that decode to something that is no object.                      *)
NonObjectBodies == { ArrayOf(<<GoodPlan>>), <<DIGIT>> }

(* Bodies the strict decode refuses.                                       *)
ProseBodies ==
    { <<PROSE, SPACE>> \o GoodPlan \o <<SPACE, PROSE>>,
      <<PROSE, LBRACE, PROSE, RBRACE, SPACE>> \o GoodPlan,
      Truncated, <<SPACE>> }

(* The bodies the attempt loop is run against.                             *)
PlanBodies == ObjectBodies \cup NonObjectBodies \cup ProseBodies

(* A plan with a patch whose path climbs out of the root, and the bodies   *)
(* the attempt loop is run against to see where such a patch lands.        *)
OutsidePlan ==
    PlanJ(<<PatchJ(ParserRel, <<"A">>), PatchJ(<<"..", "notes.txt">>, <<"B">>)>>, <<"n">>)
OutsideBodies == {GoodPlan, OutsidePlan, Truncated}

(* Every text of at most n characters over alphabet.                       *)
RECURSIVE TextsUpTo(_, _)
TextsUpTo(alphabet, n) ==
    IF n = 0 THEN {<<>>}
    ELSE LET shorter == TextsUpTo(alphabet, n - 1) IN
         shorter \cup { <<c>> \o t : c \in alphabet, t \in shorter }

ProseChars == {PROSE, SPACE, LBRACE, RBRACE}
Trailers == {<<>>, <<PROSE>>, <<SPACE>>, <<RBRACE>>}
Cores ==
    { GoodPlan, EmptyObject, Truncated, <<>>, <<DIGIT>>, ArrayOf(<<EmptyObject>>),
      <<NULLWORD>> }

(* The bodies the oracle client alone is run against: a core with up to    *)
(* MaxProse characters before it and at most one after it.                 *)
WrappedBodies ==
    { pre \o core \o post :
        pre \in TextsUpTo(ProseChars, MaxProse), core \in Cores, post \in Trailers }

(* Decoded patch entries the service may send: well-formed ones, two       *)
(* spellings of one file, entries without a path, contents that are no     *)
(* text, and paths that are absolute, climb out of the root, pass through  *)
(* a file or name a directory.                                             *)
MaxPatches == 2

Entry(path, text) == JObj((<<"path">> :> JStr(path)) @@ (<<"content">> :> text))
AliasRel == <<"tests", "..">> \o ParserRel
PatchEntries ==
    { Entry(p, JStr(<<c>>)) : p \in {ParserRel, TestRel, AliasRel}, c \in {"A", "B"} }
    \cup { JObj(<<"path">> :> JStr(ParserRel)),
           JObj(<<"content">> :> JStr(<<"A">>)),
           Entry(<<>>, JStr(<<"A">>)),
           Entry(TestRel, JNull),
           Entry(TestRel, JNum(1)),
           Entry(<<"/", "notes.txt">>, JStr(<<"A">>)),
           Entry(<<"..", "notes.txt">>, JStr(<<"A">>)),
           Entry(ParserRel \o <<"notes.txt">>, JStr(<<"A">>)),
           Entry(<<"tests">>, JStr(<<"A">>)) }

Responses(bodies) == {ApiError, NoneContent} \cup { Body(b) : b \in bodies }

(* What the test runner may answer: an exit code (negative when a signal   *)
(* killed it) and its combined output.                                     *)
VerifierResults ==
    { [code |-> 0, report |-> <<"P">>],
      [code |-> 1, report |-> <<"F">>],
      [code |-> 2, report |-> <<"G">>],
      [code |-> -9, report |-> <<>>] }

(* The trees a run may start from: main has made its three directories.    *)
StartDirs ==
    mkdir_parents(mkdir_parents(mkdir_parents({Root}, Root \o <<"tests">>),
                                Root \o <<"custom_parsers">>),
                  Root \o DataDirRel)
EmptyTree == [files |-> <<>>, dirs |-> StartDirs]
StartTrees ==
    { EmptyTree,
      [files |-> (Root \o ParserRel) :> <<"old">> @@ (Root \o CsvRel) :> <<"csv">>
                   @@ (Root \o <<".git", "HEAD">>) :> <<"ref">>,
       dirs |-> StartDirs \cup {Root \o <<".git">>}] }

(* The trees repo_context may be called on: the data directory there,      *)
(* its parent alone there, or neither; each of the files it looks at       *)
(* there or not.                                                           *)
BaseDirs == {Root, Root \o <<"tests">>, Root \o <<"custom_parsers">>}
DataDirChoices ==
    { {}, {Root \o <<"data">>}, {Root \o <<"data">>, Root \o DataDirRel} }
RepoFiles ==
    (Root \o ParserRel) :> <<"old">> @@ (Root \o TestRel) :> <<"old">>
      @@ (Root \o <<".git", "HEAD">>) :> <<"ref">>
DataFiles == (Root \o PdfRel) :> <<"pdf">> @@ (Root \o CsvRel) :> <<"csv">>
TreeOf(dataDirs, kept) ==
    [ files |-> [ loc \in kept |-> (RepoFiles @@ DataFiles)[loc] ],
      dirs |-> BaseDirs \cup dataDirs
                 \cup { SubSeq(loc, 1, Len(loc) - 1) : loc \in kept } ]
ContextTrees ==
    { TreeOf(c[1], c[2]) :
        c \in { x \in DataDirChoices \X SUBSET (DOMAIN RepoFiles \cup DOMAIN DataFiles) :
                  x[2] \cap DOMAIN DataFiles # {} => Root \o DataDirRel \in x[1] } }

(***************************************************************************)
(* State.                                                                  *)
(*   pc          where main is: "ctx" (lines 180-184), "propose" (inside   *)
(*               llm_propose_patches), "plan" (lines 187-192), "verify"    *)
(*               (lines 193-201), "exhausted" (lines 203-204), "returned", *)
(*               "raised" (an exception left main)                         *)
(*   attempt     main's loop variable                                      *)
(*   last_report main's feedback text                                      *)
(*   ctx, user_prompt, plan   main's locals of those names                 *)
(*   tries       requests llm_propose_patches has sent in this call        *)
(*   content     the response of the latest request (a local of            *)
(*               llm_propose_patches, gone when main goes on)              *)
(*   fs          the file tree                                             *)
(*   out         what main has printed                                     *)
(*   ret         <<v>> once main returned v                                *)
(*   error       the exception that left main                              *)
(*   calls       how often each operation has been started                 *)
(*   results     what run_pytest_subprocess returned, in order             *)
(*   before      the file tree as it was when the latest apply_patches     *)
(*               call started (in SpecContext: when the first of the two   *)
(*               repo_context calls started)                               *)
(*   oracle      the requests sent to the service and the values           *)
(*               llm_propose_patches has returned, counted over the run    *)
(***************************************************************************)
VARIABLES pc, attempt, last_report, ctx, user_prompt, plan, tries, content, fs, out,
          ret, error, calls, results, before, oracle

vars == <<pc, attempt, last_report, ctx, user_prompt, plan, tries, content, fs, out,
          ret, error, calls, results, before, oracle>>

Unset == [unset |-> TRUE]

Bump(c, op) == [c EXCEPT ![op] = @ + 1]

Init ==
    /\ pc = "ctx"
    /\ attempt = 1
    /\ last_report = <<>>
    /\ ctx = Unset
    /\ user_prompt = Unset
    /\ plan = Unset
    /\ tries = 0
    /\ content = NoResponse
    /\ fs \in StartTrees
    /\ out = <<>>
    /\ ret = <<>>
    /\ error = ""
    /\ calls = [ctx |-> 0, propose |-> 0, apply |-> 0, verify |-> 0]
    /\ results = <<>>
    /\ before = Unset
    /\ oracle = [requests |-> 0, returned |-> 0]

(* Lines 180-184: repo_context, the prompts, the attempt header.           *)
GatherContext ==
    /\ pc = "ctx"
    /\ calls' = Bump(calls, "ctx")
    /\ tries' = 0
    /\ content' = NoResponse
    /\ IF \E a \in Ancestors(Root \o DataDirRel) \cup {Root \o DataDirRel} :
            a \in DOMAIN fs.files
       THEN /\ pc' = "raised"
            /\ error' = "FileExistsError"
            /\ UNCHANGED <<fs, ctx, user_prompt, out>>
       ELSE LET tree == [fs EXCEPT !.dirs = mkdir_parents(@, Root \o DataDirRel)] IN
            /\ fs' = tree
            /\ \E listing \in rglob_files(tree, Root) :
                 /\ ctx' = repo_context(tree, listing)
                 /\ user_prompt' = build_user_prompt(repo_context(tree, listing),
                                                     last_report)
            /\ out' = Append(out, [ev |-> "attempt", n |-> attempt])
            /\ pc' = "propose"
            /\ error' = error
    /\ UNCHANGED <<attempt, last_report, plan, ret, results, before, oracle>>

(* Line 74 with range(LLM_TRIES + 1).                                      *)
MayTry_more(n) == n <= LLM_TRIES

(* Line 74: the iterations llm_propose_patches may still run.              *)
MayTry(n) == n < LLM_TRIES

(* Lines 93 and 99 keeping the plan of an earlier attempt when there is    *)
(* one.                                                                    *)
OracleTry_cached(bodies) ==
    /\ pc = "propose"
    /\ MayTry(tries)
    /\ \E resp \in Responses(bodies) :
         LET outcome == llm_try(resp) IN
         /\ content' = resp
         /\ tries' = tries + 1
         /\ calls' = IF tries = 0 THEN Bump(calls, "propose") ELSE calls
         /\ oracle' = [requests |-> oracle.requests + 1,
                       returned |-> oracle.returned + (IF outcome.returned THEN 1 ELSE 0)]
         /\ IF outcome.returned
            THEN /\ plan' = IF plan = Unset THEN outcome.val ELSE plan
                 /\ pc' = "plan"
            ELSE /\ plan' = plan
                 /\ pc' = pc
    /\ UNCHANGED <<attempt, last_report, ctx, user_prompt, fs, out, ret, error, results,
                   before>>

(* Lines 74-106: one request of llm_propose_patches and what it does with  *)
(* the response.                                                           *)
OracleTry(bodies) ==
    /\ pc = "propose"
    /\ MayTry(tries)
    /\ \E resp \in Responses(bodies) :
         LET outcome == llm_try(resp) IN
         /\ content' = resp
         /\ tries' = tries + 1
         /\ calls' = IF tries = 0 THEN Bump(calls, "propose") ELSE calls
         /\ oracle' = [requests |-> oracle.requests + 1,
                       returned |-> oracle.returned + (IF outcome.returned THEN 1 ELSE 0)]
         /\ IF outcome.returned
            THEN /\ plan' = outcome.val
                 /\ pc' = "plan"
            ELSE /\ plan' = plan
                 /\ pc' = pc
    /\ UNCHANGED <<attempt, last_report, ctx, user_prompt, fs, out, ret, error, results,
                   before>>

(* Line 107 left out: the function falls off its end and returns None.    *)
OracleExhausted_none ==
    /\ pc = "propose"
    /\ ~MayTry(tries)
    /\ pc' = "plan"
    /\ plan' = JNull
    /\ UNCHANGED <<attempt, last_report, ctx, user_prompt, tries, content, fs, out, ret,
                   error, calls, results, before, oracle>>

(* Line 107: the loop ran out.                                             *)
OracleExhausted ==
    /\ pc = "propose"
    /\ ~MayTry(tries)
    /\ pc' = "raised"
    /\ error' = "RuntimeError"
    /\ UNCHANGED <<attempt, last_report, ctx, user_prompt, plan, tries, content, fs, out,
                   ret, calls, results, before, oracle>>

(* notes[:500] of a text or a list.                                        *)
notes_shown(notes) ==
    IF notes.t = "str"
    THEN JStr(SubSeq(notes.s, 1, IF Len(notes.s) < NOTES_SHOWN THEN Len(notes.s) ELSE NOTES_SHOWN))
    ELSE JArr(SubSeq(notes.a, 1, IF Len(notes.a) < NOTES_SHOWN THEN Len(notes.a) ELSE NOTES_SHOWN))

(* Lines 187-192: read the plan, show its notes, apply its patches.        *)
ApplyPlan ==
    /\ pc = "plan"
    /\ content' = NoResponse
    /\ tries' = 0
    /\ IF plan.t # "obj"
       THEN /\ pc' = "raised"
            /\ error' = "AttributeError"
            /\ UNCHANGED <<fs, out, calls, before>>
       ELSE
         LET patches == dict_get(plan, <<"patches">>, JArr(<<>>))
             notes == dict_get(plan, <<"notes">>, JStr(<<>>))
         IN
         IF ~Falsy(notes) /\ notes.t \notin {"str", "arr"}
         THEN /\ pc' = "raised"
              /\ error' = "TypeError"
              /\ UNCHANGED <<fs, out, calls, before>>
         ELSE
           LET r == apply_patches(patches, fs) IN
           /\ out' = IF Falsy(notes) THEN out
                     ELSE Append(out, [ev |-> "notes", shown |-> notes_shown(notes)])
           /\ calls' = Bump(calls, "apply")
           /\ before' = fs
           /\ fs' = [files |-> r.files, dirs |-> r.dirs]
           /\ pc' = IF r.err = "" THEN "verify" ELSE "raised"
           /\ error' = r.err
    /\ UNCHANGED <<attempt, last_report, ctx, user_prompt, plan, ret, results, oracle>>

(* Line 196 written as "code <= 0": a runner killed by a signal passes.    *)
TestsPassed_signal(code) == code <= 0

(* Line 196.                                                               *)
TestsPassed(code) == code = 0

(* Line 179 with range(1, MAX_ATTEMPTS + 2), and with range(1,            *)
(* MAX_ATTEMPTS).                                                          *)
HasNext_long(n) == n <= MAX_ATTEMPTS
HasNext_short(n) == n + 1 < MAX_ATTEMPTS

(* Line 179: whether the loop has an iteration after attempt n.            *)
HasNext(n) == n + 1 <= MAX_ATTEMPTS

(* Line 200 as "last_report += report".                                    *)
Feedback_mix(previous, report) == previous \o report

(* Line 200: the feedback kept after a failed verification.                *)
Feedback(previous, report) == report

(* Line 194 left out.                                                      *)
PrintReport_none(printed, report) == printed

(* Line 194.                                                               *)
PrintReport(printed, report) == Append(printed, [ev |-> "report", text |-> report])

(* Lines 193-201: run pytest, print its output, stop or iterate.           *)
Verify ==
    /\ pc = "verify"
    /\ calls' = Bump(calls, "verify")
    /\ \E result \in VerifierResults :
         LET code == result.code
             report == result.report
             printed == PrintReport(out, report)
         IN
         /\ results' = Append(results, result)
         /\ IF TestsPassed(code)
            THEN /\ out' = Append(printed, [ev |-> "passed"])
                 /\ ret' = <<0>>
                 /\ pc' = "returned"
                 /\ UNCHANGED <<attempt, last_report>>
            ELSE /\ out' = Append(printed, [ev |-> "failed", code |-> code])
                 /\ last_report' = Feedback(last_report, report)
                 /\ ret' = ret
                 /\ IF HasNext(attempt)
                    THEN /\ attempt' = attempt + 1
                         /\ pc' = "ctx"
                    ELSE /\ attempt' = attempt
                         /\ pc' = "exhausted"
    /\ UNCHANGED <<ctx, user_prompt, plan, tries, content, fs, error, before, oracle>>

(* Lines 203-204.                                                          *)
Exhausted ==
    /\ pc = "exhausted"
    /\ out' = Append(out, [ev |-> "exhausted"])
    /\ ret' = <<1>>
    /\ pc' = "returned"
    /\ UNCHANGED <<attempt, last_report, ctx, user_prompt, plan, tries, content, fs,
                   error, calls, results, before, oracle>>

OracleStep == OracleTry(PlanBodies)

Next ==
    \/ GatherContext
    \/ OracleStep
    \/ OracleExhausted
    \/ ApplyPlan
    \/ Verify
    \/ Exhausted

Spec == Init /\ [][Next]_vars

(***************************************************************************)
(* The oracle client on its own: one call of llm_propose_patches, entered  *)
(* in attempt 1, against every wrapped body.                               *)
(***************************************************************************)
InitOracle ==
    /\ pc = "propose"
    /\ attempt = 1
    /\ last_report = <<>>
    /\ fs = EmptyTree
    /\ ctx = repo_context(fs, <<>>)
    /\ user_prompt = build_user_prompt(repo_context(fs, <<>>), <<>>)
    /\ plan = Unset
    /\ tries = 0
    /\ content = NoResponse
    /\ out = <<[ev |-> "attempt", n |-> 1]>>
    /\ ret = <<>>
    /\ error = ""
    /\ calls = [ctx |-> 1, propose |-> 0, apply |-> 0, verify |-> 0]
    /\ results = <<>>
    /\ before = Unset
    /\ oracle = [requests |-> 0, returned |-> 0]

OracleStepWrapped == OracleTry(WrappedBodies)

NextOracle ==
    \/ OracleStepWrapped
    \/ OracleExhausted

SpecOracle == InitOracle /\ [][NextOracle]_vars

(***************************************************************************)
(* The attempt loop against plans that may name a path outside the root.   *)
(***************************************************************************)
OracleStepOutside == OracleTry(OutsideBodies)

NextOutside ==
    \/ GatherContext
    \/ OracleStepOutside
    \/ OracleExhausted
    \/ ApplyPlan
    \/ Verify
    \/ Exhausted

SpecOutside == Init /\ [][NextOutside]_vars

(***************************************************************************)
(* apply_patches on its own: two calls in a row with the same patches, on  *)
(* every start tree and every list of at most MaxPatches decoded entries.  *)
(***************************************************************************)
InitApply ==
    /\ pc = "apply"
    /\ attempt = 1
    /\ last_report = <<>>
    /\ ctx = Unset
    /\ user_prompt = Unset
    /\ plan \in { JObj(<<"patches">> :> JArr(entries)) :
                     entries \in TextsUpTo(PatchEntries, MaxPatches) }
    /\ tries = 0
    /\ content = NoResponse
    /\ fs \in StartTrees
    /\ out = <<>>
    /\ ret = <<>>
    /\ error = ""
    /\ calls = [ctx |-> 0, propose |-> 0, apply |-> 0, verify |-> 0]
    /\ results = <<>>
    /\ before = Unset
    /\ oracle = [requests |-> 0, returned |-> 0]

(* Line 192 alone: apply_patches(plan["patches"], root).                   *)
ApplyCall ==
    /\ pc \in {"apply", "again"}
    /\ LET r == apply_patches(plan.o[<<"patches">>], fs) IN
       /\ fs' = [files |-> r.files, dirs |-> r.dirs]
       /\ error' = r.err
    /\ before' = fs
    /\ calls' = Bump(calls, "apply")
    /\ pc' = IF pc = "apply" THEN "again" ELSE "applied"
    /\ UNCHANGED <<attempt, last_report, ctx, user_prompt, plan, tries, content, out, ret,
                   results, oracle>>

NextApply == ApplyCall

SpecApply == InitApply /\ [][NextApply]_vars

(***************************************************************************)
(* repo_context on its own: two calls in a row on every context tree.      *)
(***************************************************************************)
InitContext ==
    /\ pc = "context"
    /\ attempt = 1
    /\ last_report = <<>>
    /\ ctx = Unset
    /\ user_prompt = Unset
    /\ plan = Unset
    /\ tries = 0
    /\ content = NoResponse
    /\ fs \in ContextTrees
    /\ out = <<>>
    /\ ret = <<>>
    /\ error = ""
    /\ calls = [ctx |-> 0, propose |-> 0, apply |-> 0, verify |-> 0]
    /\ results = <<>>
    /\ before = Unset
    /\ oracle = [requests |-> 0, returned |-> 0]

(* Line 180 alone: ctx = repo_context(args.target).                        *)
ContextCall ==
    /\ pc \in {"context", "context2"}
    /\ calls' = Bump(calls, "ctx")
    /\ before' = IF pc = "context" THEN fs ELSE before
    /\ IF \E a \in Ancestors(Root \o DataDirRel) \cup {Root \o DataDirRel} :
            a \in DOMAIN fs.files
       THEN /\ pc' = "raised"
            /\ error' = "FileExistsError"
            /\ UNCHANGED <<fs, ctx>>
       ELSE LET tree == [fs EXCEPT !.dirs = mkdir_parents(@, Root \o DataDirRel)] IN
            /\ fs' = tree
            /\ \E listing \in rglob_files(tree, Root) : ctx' = repo_context(tree, listing)
            /\ pc' = IF pc = "context" THEN "context2" ELSE "gathered"
            /\ error' = error
    /\ UNCHANGED <<attempt, last_report, user_prompt, plan, tries, content, out, ret,
                   results, oracle>>

NextContext == ContextCall

SpecContext == InitContext /\ [][NextContext]_vars

(***************************************************************************)
(* Properties.                                                             *)
(***************************************************************************)
LastResult == results[Len(results)]
AllFailed == \A i \in 1..Len(results) : results[i].code # 0
Terminated == pc \in {"returned", "raised"}
OncePerAttempt == [ctx |-> 1, propose |-> 1, apply |-> 1, verify |-> 1]

(* C1: a verification that returns 0 ends the loop at once with return 0   *)
(* and nothing runs after it; a nonzero code (positive or negative) in     *)
(* attempt n < MAX_ATTEMPTS starts attempt n+1; a nonzero code in attempt  *)
(* MAX_ATTEMPTS leads to the exhaustion exit, which returns 1; a success   *)
(* in attempt 1 took exactly one context, propose, apply and verify.       *)
C1_VerifyTransitions ==
    [][ /\ pc = "verify" =>
             /\ Len(results') = Len(results) + 1
             /\ results'[Len(results')].code = 0 =>
                    pc' = "returned" /\ ret' = <<0>> /\ attempt' = attempt
             /\ results'[Len(results')].code # 0 /\ attempt < MAX_ATTEMPTS =>
                    pc' = "ctx" /\ attempt' = attempt + 1 /\ ret' = <<>>
             /\ results'[Len(results')].code # 0 /\ attempt = MAX_ATTEMPTS =>
                    pc' = "exhausted" /\ attempt' = attempt /\ ret' = <<>>
        /\ pc = "exhausted" => pc' = "returned" /\ ret' = <<1>>
        /\ pc # "returned"
        /\ pc' = "returned" /\ ret' = <<0>> /\ attempt' = 1 => calls' = OncePerAttempt
      ]_vars

C1_Witness == pc = "returned" /\ ret = <<0>> /\ attempt = 1 /\ LastResult.code = 0

(* An upper bound on the steps main can still take: one per request, one  *)
(* each for the context, the apply and the verification of every attempt   *)
(* left, one for the exhaustion exit.                                      *)
StepsPerAttempt == LLM_TRIES + 3
StepsLeft ==
    IF Terminated THEN 0
    ELSE IF pc = "exhausted" THEN 1
    ELSE 1 + (MAX_ATTEMPTS - attempt) * StepsPerAttempt
           + (CASE pc = "ctx" -> StepsPerAttempt
                [] pc = "propose" -> 2 + (LLM_TRIES - tries)
                [] pc = "plan" -> 2
                [] pc = "verify" -> 1)

(* C2: whatever the oracle and the verifier answer, the attempt counter    *)
(* stays in 1..MAX_ATTEMPTS and moves only by +1, at most MAX_ATTEMPTS     *)
(* iterations are started, and the loop terminates: every step lowers a    *)
(* bound on the steps left, which is 0 exactly when main has returned or   *)
(* an exception has left it.                                               *)
C2_BoundedTermination ==
    /\ [](/\ attempt \in 1..MAX_ATTEMPTS
          /\ calls.ctx <= MAX_ATTEMPTS
          /\ calls.ctx <= attempt
          /\ StepsLeft \in 0..(1 + MAX_ATTEMPTS * StepsPerAttempt)
          /\ StepsLeft = 0 <=> Terminated)
    /\ [][ /\ attempt' = attempt \/ attempt' = attempt + 1
           /\ StepsLeft' < StepsLeft ]_vars

C2_Witness ==
    /\ pc = "returned" /\ ret = <<0>> /\ attempt = MAX_ATTEMPTS
    /\ results[1].code # 0 /\ results[2].code # 0

(* C3: main returns 0 exactly when the latest verification returned 0,     *)
(* which is then the verification of an attempt n <= MAX_ATTEMPTS, every   *)
(* earlier one having failed, and nothing runs after it; main returns 1    *)
(* only after exactly MAX_ATTEMPTS verifications that all failed, and      *)
(* after MAX_ATTEMPTS failed verifications it returns nothing but 1.       *)
C3_ReturnCodes ==
    /\ ret \in {<<>>, <<0>>, <<1>>}
    /\ Len(results) <= MAX_ATTEMPTS
    /\ \A i \in 1..(Len(results) - 1) : results[i].code # 0
    /\ ret = <<0>> <=> (results # <<>> /\ LastResult.code = 0)
    /\ ret = <<0>> =>
         /\ pc = "returned"
         /\ Len(results) = attempt
         /\ calls.verify = Len(results)
         /\ out[Len(out)] = [ev |-> "passed"]
         /\ ~ENABLED Next
    /\ ret = <<1>> => pc = "returned" /\ Len(results) = MAX_ATTEMPTS /\ AllFailed
    /\ (Len(results) = MAX_ATTEMPTS /\ AllFailed) =>
         /\ pc \in {"exhausted", "returned"}
         /\ pc = "returned" => ret = <<1>>
    /\ pc = "returned" => ret # <<>>

C3_Witness == pc = "returned" /\ ret = <<0>> /\ Len(results) = 2

(* The three failures of one try: a transport/API error, an empty or       *)
(* whitespace-only body, a body neither decode accepts.                    *)
HasSpan(b) == find(b, LBRACE) # -1 /\ rfind(b, RBRACE) > find(b, LBRACE)
Span(b) == Slice(b, find(b, LBRACE), rfind(b, RBRACE) + 1)
Undecodable(b) == ~json_loads(b).ok /\ ~(HasSpan(b) /\ json_loads(Span(b)).ok)
FailedResponse(r) ==
    \/ r.kind \in {"error", "none"}
    \/ r.kind = "body" /\ (strip(r.body) = <<>> \/ Undecodable(r.body))
Decoded(b) == IF json_loads(b).ok THEN json_loads(b).val ELSE json_loads(Span(b)).val

(* C4: one call of llm_propose_patches sends at most LLM_TRIES = 3         *)
(* requests; every failed response uses up exactly one try and leaves the  *)
(* call trying; the first response that decodes is returned at once; the   *)
(* call raises exactly when LLM_TRIES responses have failed.               *)
C4_RetryBudget ==
    /\ [](/\ tries \in 0..LLM_TRIES
          /\ pc = "propose" /\ tries > 0 => FailedResponse(content)
          /\ pc = "plan" => ~FailedResponse(content) /\ plan = Decoded(content.body)
          /\ pc = "raised" =>
               tries = LLM_TRIES /\ FailedResponse(content) /\ error = "RuntimeError")
    /\ [][ pc = "propose" =>
             \/ /\ tries < LLM_TRIES
                /\ tries' = tries + 1
                /\ content'.kind \in {"error", "none", "body"}
                /\ IF FailedResponse(content')
                   THEN pc' = "propose" /\ plan' = plan
                   ELSE pc' = "plan" /\ plan' = Decoded(content'.body)
             \/ /\ tries = LLM_TRIES
                /\ tries' = tries
                /\ pc' = "raised" ]_vars

C4_Witness == pc = "plan" /\ tries = LLM_TRIES /\ content.kind = "body"

(* A Plan: an object with a patches list of {path, content} texts and a    *)
(* notes text.                                                             *)
IsPatch(v) ==
    /\ v.t = "obj"
    /\ <<"path">> \in DOMAIN v.o /\ v.o[<<"path">>].t = "str"
    /\ <<"content">> \in DOMAIN v.o /\ v.o[<<"content">>].t = "str"
IsPlan(v) ==
    /\ v.t = "obj"
    /\ <<"patches">> \in DOMAIN v.o /\ v.o[<<"patches">>].t = "arr"
    /\ \A i \in 1..Len(v.o[<<"patches">>].a) : IsPatch(v.o[<<"patches">>].a[i])
    /\ <<"notes">> \in DOMAIN v.o /\ v.o[<<"notes">>].t = "str"

(* C5: whatever llm_propose_patches hands to the attempt loop is a Plan: a *)
(* response that decodes to anything else is not returned.                 *)
C5_OnlyPlansReturned == pc = "plan" => IsPlan(plan)

(* The body is text followed by one object that ends it, the object        *)
(* starting at index i.                                                    *)
ObjectAt(b, i) == b[i] = LBRACE /\ scan_once(b, i).ok /\ scan_once(b, i).end = Len(b) + 1
NoBraceBefore(b, i) == \A j \in 1..(i - 1) : b[j] # LBRACE

(* How a try ends on a body that is not blank: with the strict decode's    *)
(* value; failing that, with the value of the span from the first "{" to   *)
(* the last "}"; failing both, as a failed try.                            *)
DecodeOrder(b) ==
    /\ json_loads(b).ok => pc = "plan" /\ plan = json_loads(b).val
    /\ ~json_loads(b).ok /\ HasSpan(b) /\ json_loads(Span(b)).ok =>
         pc = "plan" /\ plan = json_loads(Span(b)).val
    /\ Undecodable(b) => pc \in {"propose", "raised"}

(* C6 as amended: the decode order above, and a body of leading prose      *)
(* without "{" followed by one well-formed object is returned as that      *)
(* object.                                                                 *)
C6_Recovery ==
    content.kind = "body" /\ strip(content.body) # <<>> =>
      /\ DecodeOrder(content.body)
      /\ \A i \in 2..Len(content.body) :
           ObjectAt(content.body, i) /\ NoBraceBefore(content.body, i) =>
             pc = "plan" /\ plan = scan_once(content.body, i).val

C6_Witness ==
    /\ content.kind = "body" /\ pc = "plan"
    /\ ~json_loads(content.body).ok
    /\ content.body[1] = PROSE
    /\ ObjectAt(content.body, 2)
    /\ plan = json_loads(GoodPlan).val

(* C6 as stated: any leading prose followed by one well-formed object is   *)
(* returned as that object.                                                *)
C6_AnyProse ==
    content.kind = "body" /\ strip(content.body) # <<>> =>
      /\ DecodeOrder(content.body)
      /\ \A i \in 2..Len(content.body) :
           ObjectAt(content.body, i) =>
             pc = "plan" /\ plan = scan_once(content.body, i).val

(* C7: when llm_propose_patches runs out of tries in attempt n the run     *)
(* ends there with its RuntimeError: nothing was written, applied or       *)
(* verified in attempt n, nothing follows, main returns nothing and prints *)
(* no exhaustion message; and the call raises in no other case.            *)
C7_OracleAbort ==
    /\ [](error = "RuntimeError" =>
            /\ pc = "raised" /\ ret = <<>>
            /\ tries = LLM_TRIES /\ FailedResponse(content)
            /\ calls = [ctx |-> attempt, propose |-> attempt,
                        apply |-> attempt - 1, verify |-> attempt - 1]
            /\ Len(results) = attempt - 1
            /\ out[Len(out)] = [ev |-> "attempt", n |-> attempt])
    /\ [][ /\ pc # "raised"
           /\ pc = "propose" => fs' = fs
           /\ pc = "propose" /\ tries = LLM_TRIES => pc' = "raised" /\ error' = "RuntimeError"
           /\ pc = "propose" /\ pc' = "raised" => tries = LLM_TRIES /\ error' = "RuntimeError"
         ]_vars

C7_Witness == pc = "raised" /\ error = "RuntimeError" /\ attempt = 2

(* C8: the feedback of attempt 1 is the empty text and that of attempt     *)
(* n >= 2 is exactly the output of the verification of attempt n-1; the    *)
(* prompt of the attempt shows it ("N/A" in place of an empty text); a     *)
(* failed verification that is not the last one is followed by the next    *)
(* attempt.                                                                *)
FeedbackFor(n) == IF n = 1 THEN <<>> ELSE results[n - 1].report
C8_Feedback ==
    /\ Len(results) >= attempt - 1
    /\ pc \in {"ctx", "propose", "plan", "verify", "raised"} =>
         last_report = FeedbackFor(attempt)
    /\ pc \in {"propose", "plan", "verify"} =>
         user_prompt.last_report =
           IF FeedbackFor(attempt) = <<>> THEN <<"N/A">> ELSE FeedbackFor(attempt)
    /\ \A i \in 1..Len(results) :
         results[i].code # 0 /\ i < MAX_ATTEMPTS => attempt > i

C8_Witness ==
    /\ pc = "propose" /\ attempt = MAX_ATTEMPTS
    /\ results[1].report # results[2].report
    /\ user_prompt.last_report = results[2].report

(* The patches of the plan in hand, and where each one lands.              *)
PlanPatches ==
    IF plan.t = "obj" /\ <<"patches">> \in DOMAIN plan.o /\ plan.o[<<"patches">>].t = "arr"
    THEN plan.o[<<"patches">>].a
    ELSE <<>>
Named(patch) == patch.t = "obj" /\ ~Falsy(dict_get(patch, <<"path">>, JNull))
DestOf(patch) == Resolve(JoinPath(Root, patch.o[<<"path">>].s))
IsLastFor(i) ==
    \A j \in (i + 1)..Len(PlanPatches) :
      Named(PlanPatches[j]) => DestOf(PlanPatches[j]) # DestOf(PlanPatches[i])
AllWritten ==
    \A i \in 1..Len(PlanPatches) :
      Named(PlanPatches[i]) /\ IsLastFor(i) =>
        /\ DestOf(PlanPatches[i]) \in DOMAIN fs.files
        /\ fs.files[DestOf(PlanPatches[i])] =
             dict_get(PlanPatches[i], <<"content">>, JStr(<<>>)).s

Done(n) == [ctx |-> n, propose |-> n, apply |-> n, verify |-> n]

(* C9: every attempt gathers, proposes, applies and verifies at most once  *)
(* and in that order; when the verifier runs every patch of the plan with  *)
(* a non-empty path is on disk; files are written by the apply step only.  *)
C9_Order ==
    /\ [](/\ pc = "ctx" => calls = Done(attempt - 1)
          /\ pc = "propose" =>
               calls = [Done(attempt - 1) EXCEPT !.ctx = attempt,
                          !.propose = IF tries = 0 THEN attempt - 1 ELSE attempt]
          /\ pc = "plan" => calls = [Done(attempt - 1) EXCEPT !.ctx = attempt, !.propose = attempt]
          /\ pc = "verify" => calls = [Done(attempt) EXCEPT !.verify = attempt - 1] /\ AllWritten
          /\ pc \in {"exhausted", "returned"} => calls = Done(attempt))
    /\ [][ fs.files' # fs.files => pc = "plan" /\ pc' \in {"verify", "raised"} ]_vars

C9_Witness ==
    /\ pc = "verify" /\ attempt = 2
    /\ Len(PlanPatches) = 2
    /\ Named(PlanPatches[1]) /\ Named(PlanPatches[2])
    /\ DestOf(PlanPatches[1]) # DestOf(PlanPatches[2])

(* C10: when every verification failed and main is past its loop, it ran   *)
(* exactly MAX_ATTEMPTS attempts, the output of the last verification is   *)
(* printed before the exhaustion message, and main returns 1.              *)
C10_Exhaustion ==
    /\ pc \in {"exhausted", "returned"} /\ AllFailed =>
         /\ attempt = MAX_ATTEMPTS
         /\ Len(results) = MAX_ATTEMPTS
         /\ calls = Done(MAX_ATTEMPTS)
    /\ pc = "exhausted" =>
         out[Len(out) - 1] = [ev |-> "report", text |-> results[MAX_ATTEMPTS].report]
    /\ pc = "returned" /\ AllFailed =>
         /\ ret = <<1>>
         /\ out[Len(out)] = [ev |-> "exhausted"]
         /\ out[Len(out) - 2] = [ev |-> "report", text |-> results[MAX_ATTEMPTS].report]

C10_Witness ==
    /\ pc = "returned" /\ ret = <<1>>
    /\ plan = json_loads(GoodPlan).val
    /\ results[MAX_ATTEMPTS].report = <<"F">>

(***************************************************************************)
(* apply_patches as a function of the tree and the patches.                *)
(***************************************************************************)
Applied == pc \in {"again", "applied"}
SameDest(i, j) ==
    /\ Named(PlanPatches[i]) /\ Named(PlanPatches[j])
    /\ DestOf(PlanPatches[i]) = DestOf(PlanPatches[j])
ContentOf(patch) == dict_get(patch, <<"content">>, JStr(<<>>))
Touched == { loc \in DOMAIN fs.files :
               loc \notin DOMAIN before.files \/ fs.files[loc] # before.files[loc] }

(* C11: applying the same patches a second time, right after the first,    *)
(* leaves the path-to-content mapping of the disk as the first call left   *)
(* it, for every start tree and every list of patches, lists that name a   *)
(* file more than once included.                                           *)
C11_Idempotent ==
    pc = "applied" =>
      /\ DOMAIN fs.files = DOMAIN before.files
      /\ \A loc \in DOMAIN fs.files : fs.files[loc] = before.files[loc]

C11_Witness ==
    /\ pc = "applied" /\ error = ""
    /\ Len(PlanPatches) = 2
    /\ SameDest(1, 2)
    /\ ContentOf(PlanPatches[1]) # ContentOf(PlanPatches[2])
    /\ DestOf(PlanPatches[1]) = Root \o ParserRel
    /\ fs.files[Root \o ParserRel] # <<"old">>

Pathless(patch) ==
    /\ patch.t = "obj"
    /\ <<"path">> \in DOMAIN patch.o => patch.o[<<"path">>] = JStr(<<>>)
Without(seq, i) == SubSeq(seq, 1, i - 1) \o SubSeq(seq, i + 1, Len(seq))

(* C12: an entry whose path is missing or empty is passed over: the call   *)
(* ends as the call without that entry ends (same files, same              *)
(* directories, same outcome), a list of such entries alone changes        *)
(* nothing and raises nothing, and every file the call created or changed  *)
(* is the destination of an entry that has a path.                         *)
C12_SkipsPathless ==
    Applied =>
      /\ \A i \in 1..Len(PlanPatches) :
           Pathless(PlanPatches[i]) =>
             LET r == apply_patches(JArr(Without(PlanPatches, i)), before) IN
             /\ fs.files = r.files
             /\ fs.dirs = r.dirs
             /\ error = r.err
      /\ (\A i \in 1..Len(PlanPatches) : Pathless(PlanPatches[i])) =>
           error = "" /\ fs = before
      /\ \A loc \in Touched :
           \E i \in 1..Len(PlanPatches) :
             Named(PlanPatches[i]) /\ DestOf(PlanPatches[i]) = loc
      /\ error = "" => AllWritten

C12_Witness ==
    /\ pc = "again" /\ error = ""
    /\ Len(PlanPatches) = 2
    /\ Pathless(PlanPatches[1])
    /\ Named(PlanPatches[2])
    /\ Touched = {DestOf(PlanPatches[2])}

PathText(patch) == patch.o[<<"path">>]
LastNaming(i) ==
    CHOOSE j \in i..Len(PlanPatches) :
      /\ Named(PlanPatches[j]) /\ PathText(PlanPatches[j]) = PathText(PlanPatches[i])
      /\ \A k \in (j + 1)..Len(PlanPatches) :
           Named(PlanPatches[k]) => PathText(PlanPatches[k]) # PathText(PlanPatches[i])

(* C13: after apply_patches, the file of every patch with a non-empty path *)
(* exists and holds the content of the last patch naming that path (the    *)
(* empty text when the patch has no content), whatever it held before,     *)
(* and every file no patch names is as it was.                             *)
C13_LastPatchWins ==
    Applied =>
      /\ \A i \in 1..Len(PlanPatches) :
           Named(PlanPatches[i]) =>
             /\ DestOf(PlanPatches[i]) \in DOMAIN fs.files
             /\ JStr(fs.files[DestOf(PlanPatches[i])]) = ContentOf(PlanPatches[LastNaming(i)])
      /\ \A loc \in DOMAIN before.files : loc \in DOMAIN fs.files
      /\ \A loc \in Touched :
           \E i \in 1..Len(PlanPatches) :
             Named(PlanPatches[i]) /\ DestOf(PlanPatches[i]) = loc

HasTextPath(patch) ==
    /\ patch.t = "obj"
    /\ <<"path">> \in DOMAIN patch.o
    /\ PathText(patch).t = "str"
    /\ PathText(patch).s # <<>>
WithTextContent(patch) ==
    IF ContentOf(patch).t = "str" THEN patch
    ELSE JObj((<<"content">> :> JStr(<<>>)) @@ patch.o)
TextContents(seq) == [ i \in 1..Len(seq) |-> WithTextContent(seq[i]) ]

(* C14: the value of a content field never makes apply_patches fail: with  *)
(* every entry naming a path, the call ends as it ends when every content  *)
(* that is no text is replaced by a text.                                  *)
C14_ContentNeverFails ==
    (Applied /\ \A i \in 1..Len(PlanPatches) : HasTextPath(PlanPatches[i])) =>
      error = apply_patches(JArr(TextContents(PlanPatches)), before).err

(* C19: every file apply_patches creates or overwrites lies below the root *)
(* it was given.                                                           *)
C19_InsideRoot ==
    Applied => \A loc \in Touched : IsPrefix(Root, loc)

(***************************************************************************)
(* repo_context as a function of the tree.                                 *)
(***************************************************************************)
DataDir == Root \o DataDirRel

(* C16: a second repo_context call on the tree the first one left, with no *)
(* apply_patches call in between, returns the snapshot the first call      *)
(* returned (flags, file list, contents), whatever order the file system   *)
(* lists the files in and also when the first call created the data        *)
(* directory; the list is sorted.                                          *)
C16_Deterministic ==
    /\ [](pc \in {"context2", "gathered"} =>
            \A i \in 1..(Len(ctx.present_files) - 1) :
              PathLess(ctx.present_files[i], ctx.present_files[i + 1]))
    /\ [][pc = "context2" => pc' = "gathered" /\ ctx' = ctx /\ fs' = fs]_vars

C16_Witness ==
    /\ pc = "gathered"
    /\ DataDir \notin before.dirs
    /\ Len(ctx.present_files) = 2
    /\ DOMAIN ctx.existing_contents = {Root \o ParserRel, Root \o TestRel}

(* C17: on a tree where the data directory, the PDF or the CSV is absent   *)
(* repo_context raises nothing, the data directory exists afterwards, the  *)
(* two flags tell whether each file is there, and the files of the tree    *)
(* are as they were.                                                       *)
C17_ContextTolerant ==
    /\ pc # "raised"
    /\ error = ""
    /\ pc = "context2" =>
         /\ DataDir \in fs.dirs
         /\ before.dirs \subseteq fs.dirs
         /\ fs.files = before.files
         /\ ctx.data_pdf_exists <=> (Root \o PdfRel) \in DOMAIN before.files
         /\ ctx.data_csv_exists <=> (Root \o CsvRel) \in DOMAIN before.files

C17_Witness ==
    /\ pc = "context2"
    /\ Root \o <<"data">> \notin before.dirs
    /\ DataDir \in fs.dirs
    /\ ~ctx.data_pdf_exists /\ ~ctx.data_csv_exists
    /\ before.files # <<>>

(* C18: at every point of a run at most LLM_TRIES * MAX_ATTEMPTS = 9       *)
(* requests have been sent and at most MAX_ATTEMPTS = 3 verifications      *)
(* started, and no more verifications have started than                    *)
(* llm_propose_patches has returned values.                                *)
C18_Budgets ==
    /\ oracle.requests <= LLM_TRIES * MAX_ATTEMPTS
    /\ oracle.requests <= LLM_TRIES * attempt
    /\ calls.verify <= MAX_ATTEMPTS
    /\ calls.verify <= oracle.returned
    /\ oracle.returned <= calls.propose
    /\ oracle.returned <= oracle.requests

C18_Witness ==
    /\ pc = "returned"
    /\ oracle.requests = LLM_TRIES * MAX_ATTEMPTS
    /\ calls.verify = MAX_ATTEMPTS
    /\ oracle.returned = MAX_ATTEMPTS

Listed(loc) == \E k \in 1..Len(ctx.present_files) : Root \o ctx.present_files[k] = loc
Targets == {Root \o ParserRel, Root \o TestRel}

(* C15: the snapshot of attempt n+1 is taken from the disk as attempt n    *)
(* left it: it lists every file the patches of attempt n wrote, those of   *)
(* the excluded trees apart, and holds for the two target files what       *)
(* attempt n wrote to them.                                                *)
C15_FreshSnapshot ==
    (pc = "propose" /\ attempt > 1) =>
      /\ \A i \in 1..Len(PlanPatches) :
           Named(PlanPatches[i]) =>
             /\ Parts(DestOf(PlanPatches[i])) \cap ExcludedSegs = {} =>
                  Listed(DestOf(PlanPatches[i]))
             /\ DestOf(PlanPatches[i]) \in Targets /\ IsLastFor(i) =>
                  /\ DestOf(PlanPatches[i]) \in DOMAIN ctx.existing_contents
                  /\ JStr(ctx.existing_contents[DestOf(PlanPatches[i])]) =
                       ContentOf(PlanPatches[i])
      /\ ctx.existing_contents = read_existing_files(fs, Targets)

(* C20: once the passing verification has started nothing is written: the  *)
(* tree main returns 0 on is the tree apply_patches left, with the content *)
(* of the last plan at every path it names.  An attempt starts from the    *)
(* feedback text and the tree alone: its snapshot and prompt are computed  *)
(* from them, the response slot is empty, and the plan it applies is the   *)
(* one decoded from its own response.                                      *)
C20_FinalTree ==
    /\ [](/\ ret = <<0>> =>
               /\ AllWritten
               /\ [files |-> fs.files, dirs |-> fs.dirs, err |-> ""] =
                    apply_patches(dict_get(plan, <<"patches">>, JArr(<<>>)), before)
          /\ pc = "ctx" => content = NoResponse /\ tries = 0
          /\ pc = "propose" =>
               /\ ctx.existing_contents = read_existing_files(fs, Targets)
               /\ \A loc \in DOMAIN fs.files :
                    IsPrefix(Root, loc) /\ Parts(loc) \cap ExcludedSegs = {} => Listed(loc)
               /\ user_prompt = build_user_prompt(ctx, last_report)
          /\ pc = "plan" => content.kind = "body" /\ plan = Decoded(content.body))
    /\ [][ /\ pc \in {"verify", "exhausted", "returned"} => fs' = fs
           /\ pc = "plan" /\ pc' = "verify" =>
                [files |-> fs'.files, dirs |-> fs'.dirs, err |-> ""] =
                  apply_patches(dict_get(plan, <<"patches">>, JArr(<<>>)), fs) ]_vars

C20_Witness ==
    /\ pc = "returned" /\ ret = <<0>> /\ attempt = 2
    /\ Len(PlanPatches) = 1
    /\ Named(PlanPatches[1])
    /\ DestOf(PlanPatches[1]) = Root \o ParserRel
    /\ Targets \subseteq DOMAIN before.files
    /\ before.files[Root \o ParserRel] = <<"A">>
    /\ fs.files[Root \o ParserRel] = <<"B">>
    /\ fs.files[Root \o TestRel] = <<"B">>
====
